---- MODULE Spec2Model ----
(***************************************************************************)
(* Trading dashboard backend: timeframe resolver, indicator calculators    *)
(* and the windowed data / indicator requests over the bar store.          *)
(*                                                                         *)
(* Numbers.  Python floats are modelled as exact rationals [k, n, d] with  *)
(* k = "num", d > 0 and gcd(n, d) = 1.  The two undefined sentinels the    *)
(* code produces are kept apart: None (python None) and NaN (float nan).   *)
(* "inf" only occurs inside calculate_rsi / calculate_volatility.          *)
(* Dates are day numbers counted from 2000-01-01 (day 0).                  *)
(***************************************************************************)
EXTENDS Integers, Sequences, FiniteSets, TLC

VARIABLES
    closeSeries,   \* calculator input: close prices (list of float)
    calcOut,       \* last calculator call: [fn, args, out] or NoCall
    rSim,          \* resolver input: simulated_date
    rCode,         \* resolver input: timeframe code
    rStart,        \* resolver output: start date, or NoDate before the call
    db,            \* committed rows of table stock_data, per stored symbol
    session,       \* import_stock_from_csv in progress (its Session), or Idle
    req,           \* last HTTP request, or NoReq
    resp,          \* its response
    importLog      \* the last call of import_stock_from_csv an observer followed

vars == <<closeSeries, calcOut, rSim, rCode, rStart, db, session, req, resp, importLog>>

calcVars == <<closeSeries, calcOut>>
resolveVars == <<rSim, rCode, rStart>>
storeVars == <<db, session, req, resp, importLog>>

----------------------------------------------------------------------------
(* Bounds of the model *)

MaxLen == 4        \* longest calculator input
MaxPrice == 2      \* close prices are 0..MaxPrice
MaxPeriod == 3     \* calculator periods are 1..MaxPeriod

----------------------------------------------------------------------------
(* Float values *)

None == [k |-> "None", n |-> 0, d |-> 1]
NaN == [k |-> "NaN", n |-> 0, d |-> 1]
Inf == [k |-> "inf", n |-> 1, d |-> 1]

Abs(x) == IF x < 0 THEN -x ELSE x

RECURSIVE GCD(_, _)
GCD(a, b) == IF b = 0 THEN a ELSE GCD(b, a % b)

Num(n, d) ==
    LET g == GCD(Abs(n), d)
    IN  [k |-> "num", n |-> (n \div g), d |-> (d \div g)]

IsNum(v) == v.k = "num"
IsUndefined(v) == v.k \in {"None", "NaN"}

FAdd(a, b) ==
    LET l == (a.d \div GCD(a.d, b.d)) * b.d
    IN  Num(a.n * (l \div a.d) + b.n * (l \div b.d), l)
FNeg(a) == [a EXCEPT !.n = -a.n]
FSub(a, b) == FAdd(a, FNeg(b))
FMul(a, b) ==
    LET g1 == GCD(Abs(a.n), b.d)
        g2 == GCD(Abs(b.n), a.d)
    IN  Num((a.n \div g1) * (b.n \div g2), (a.d \div g2) * (b.d \div g1))
\* a / b for b # 0
FDiv(a, b) ==
    IF b.n > 0 THEN FMul(a, Num(b.d, b.n)) ELSE FMul(a, Num(-b.d, -b.n))
FLess(a, b) == a.n * b.d < b.n * a.d
FZero == Num(0, 1)

\* float(x) of a whole number
Float(x) == Num(x, 1)
Floats(xs) == [i \in 1..Len(xs) |-> Float(xs[i])]

Repeat(v, count) == [i \in 1..count |-> v]

----------------------------------------------------------------------------
(* pandas Series operations used by the calculators *)

\* Series.ewm(span=span, adjust=False).mean()
RECURSIVE ewm_mean(_, _, _)
ewm_mean(data, span, upto) ==
    IF upto = 0 THEN <<>>
    ELSE LET prev == ewm_mean(data, span, upto - 1)
             alpha == Num(2, span + 1)
         IN  IF upto = 1 THEN <<data[1]>>
             ELSE Append(prev, FAdd(FMul(alpha, data[upto]),
                                    FMul(FSub(Float(1), alpha), prev[upto - 1])))

RECURSIVE SumRange(_, _, _)
SumRange(xs, lo, hi) ==
    IF lo > hi THEN FZero ELSE FAdd(xs[hi], SumRange(xs, lo, hi - 1))

\* Series.rolling(window=window).mean(): min_periods = window, so an entry is
\* NaN until the window holds `window` observations (NaN / inf are no observation)
rolling_mean(xs, window) ==
    [i \in 1..Len(xs) |->
        IF i < window \/ \E j \in (i - window + 1)..i : ~IsNum(xs[j])
        THEN NaN
        ELSE FDiv(SumRange(xs, i - window + 1, i), Float(window))]

\* Series.diff(-1): the difference to the next entry
diff_forward(xs) ==
    [i \in 1..Len(xs) |-> IF i = Len(xs) THEN NaN ELSE FSub(xs[i + 1], xs[i])]

\* Series.diff()
diff(xs) ==
    [i \in 1..Len(xs) |-> IF i = 1 THEN NaN ELSE FSub(xs[i], xs[i - 1])]

\* Series.pct_change(): x[i] / x[i-1] - 1 in IEEE arithmetic
pct_change(xs) ==
    [i \in 1..Len(xs) |->
        IF i = 1 THEN NaN
        ELSE IF xs[i - 1].n = 0
             THEN (IF xs[i].n = 0 THEN NaN ELSE Inf)
             ELSE FSub(FDiv(xs[i], xs[i - 1]), Float(1))]

\* the population variance (ddof = 0): defined for a single observation
rolling_var_population(xs, window) ==
    [i \in 1..Len(xs) |->
        IF i < window \/ \E j \in (i - window + 1)..i : ~IsNum(xs[j])
        THEN NaN
        ELSE LET mean == FDiv(SumRange(xs, i - window + 1, i), Float(window))
                 sq == [j \in 1..Len(xs) |->
                          IF IsNum(xs[j])
                          THEN FMul(FSub(xs[j], mean), FSub(xs[j], mean))
                          ELSE FZero]
             IN  FDiv(SumRange(sq, i - window + 1, i), Float(window))]

\* Series.rolling(window=window).std() with ddof = 1, returned as the variance
\* (the square of the std): undefined below `window` observations and for a
\* single observation
rolling_var(xs, window) ==
    [i \in 1..Len(xs) |->
        IF i < window \/ \E j \in (i - window + 1)..i : ~IsNum(xs[j])
        THEN NaN
        ELSE IF window <= 1 THEN NaN
        ELSE LET mean == FDiv(SumRange(xs, i - window + 1, i), Float(window))
                 sq == [j \in 1..Len(xs) |->
                          IF IsNum(xs[j])
                          THEN FMul(FSub(xs[j], mean), FSub(xs[j], mean))
                          ELSE FZero]
             IN  FDiv(SumRange(sq, i - window + 1, i), Float(window - 1))]

----------------------------------------------------------------------------
(* Indicator calculators (services/indicator_calc.py) *)

\* the first reported value taken as the mean of the first `period` inputs
calculate_ema_mean_seeded(data, period) ==
    IF Len(data) < period THEN Repeat(None, Len(data))
    ELSE LET ema == ewm_mean(data, period, Len(data))
         IN  Repeat(None, period - 1) \o <<rolling_mean(data, period)[period]>>
                 \o SubSeq(ema, period + 1, Len(data))

\* guard "<=" in place of "<"
calculate_ema_strict_guard(data, period) ==
    IF Len(data) <= period THEN Repeat(None, Len(data))
    ELSE LET ema == ewm_mean(data, period, Len(data))
         IN  Repeat(None, period - 1) \o SubSeq(ema, period, Len(data))

calculate_ema(data, period) ==
    IF Len(data) < period THEN Repeat(None, Len(data))
    ELSE LET ema == ewm_mean(data, period, Len(data))
         IN  Repeat(None, period - 1) \o SubSeq(ema, period, Len(data))

\* the exponential average in place of the rolling mean
calculate_sma_exponential(data, period) ==
    IF Len(data) < period THEN Repeat(None, Len(data))
    ELSE ewm_mean(data, period, Len(data))

calculate_sma(data, period) ==
    IF Len(data) < period THEN Repeat(None, Len(data))
    ELSE rolling_mean(data, period)

\* a zero average loss gives no value
\* a window without any move reported as the neutral 50
rsi_value_neutral_on_flat(avg_gain, avg_loss) ==
    IF ~IsNum(avg_gain) \/ ~IsNum(avg_loss) THEN NaN
    ELSE IF avg_loss.n = 0
         THEN (IF avg_gain.n = 0 THEN Float(50) ELSE Float(100))
         ELSE LET rs == FDiv(avg_gain, avg_loss)
              IN  FSub(Float(100), FDiv(Float(100), FAdd(Float(1), rs)))

rsi_value_undefined_on_zero_loss(avg_gain, avg_loss) ==
    IF ~IsNum(avg_gain) \/ ~IsNum(avg_loss) THEN NaN
    ELSE IF avg_loss.n = 0 THEN NaN
         ELSE LET rs == FDiv(avg_gain, avg_loss)
              IN  FSub(Float(100), FDiv(Float(100), FAdd(Float(1), rs)))

\* avg_gains / avg_losses and 100 - 100 / (1 + rs), elementwise in IEEE
\* arithmetic: x / 0 is inf for x > 0 and NaN for x = 0; 100 / (1 + inf) is 0.
\* (losses holds -0.0 where there is no loss; a rolling mean of -0.0 gives
\* x / -0.0 = -inf, 100 / (1 - inf) = -0.0 and again 100 - (-0.0) = 100.)
rsi_value(avg_gain, avg_loss) ==
    IF ~IsNum(avg_gain) \/ ~IsNum(avg_loss) THEN NaN
    ELSE IF avg_loss.n = 0
         THEN (IF avg_gain.n = 0 THEN NaN ELSE Float(100))
         ELSE LET rs == FDiv(avg_gain, avg_loss)
              IN  FSub(Float(100), FDiv(Float(100), FAdd(Float(1), rs)))

\* guard "len(data) < period"
calculate_rsi_short_guard(data, period) ==
    IF Len(data) < period THEN Repeat(None, Len(data))
    ELSE LET delta == diff(data)
             gains == [i \in 1..Len(data) |->
                          IF IsNum(delta[i]) /\ delta[i].n > 0 THEN delta[i] ELSE FZero]
             losses == [i \in 1..Len(data) |->
                          IF IsNum(delta[i]) /\ delta[i].n < 0 THEN FNeg(delta[i]) ELSE FZero]
             avg_gains == rolling_mean(gains, period)
             avg_losses == rolling_mean(losses, period)
         IN  [i \in 1..Len(data) |-> rsi_value(avg_gains[i], avg_losses[i])]

\* the NaN diff at index 0 stays NaN in gains and losses
calculate_rsi_nan_first(data, period) ==
    IF Len(data) < period + 1 THEN Repeat(None, Len(data))
    ELSE LET delta == diff(data)
             gains == [i \in 1..Len(data) |->
                          IF ~IsNum(delta[i]) THEN NaN
                          ELSE IF delta[i].n > 0 THEN delta[i] ELSE FZero]
             losses == [i \in 1..Len(data) |->
                          IF ~IsNum(delta[i]) THEN NaN
                          ELSE IF delta[i].n < 0 THEN FNeg(delta[i]) ELSE FZero]
             avg_gains == rolling_mean(gains, period)
             avg_losses == rolling_mean(losses, period)
         IN  [i \in 1..Len(data) |-> rsi_value(avg_gains[i], avg_losses[i])]

calculate_rsi(data, period) ==
    IF Len(data) < period + 1 THEN Repeat(None, Len(data))
    ELSE LET delta == diff(data)
             \* delta.where(delta > 0, 0): NaN > 0 is False, so index 0 becomes 0
             gains == [i \in 1..Len(data) |->
                          IF IsNum(delta[i]) /\ delta[i].n > 0 THEN delta[i] ELSE FZero]
             losses == [i \in 1..Len(data) |->
                          IF IsNum(delta[i]) /\ delta[i].n < 0 THEN FNeg(delta[i]) ELSE FZero]
             avg_gains == rolling_mean(gains, period)
             avg_losses == rolling_mean(losses, period)
         IN  [i \in 1..Len(data) |-> rsi_value(avg_gains[i], avg_losses[i])]

\* The entry stands for the square of the float the code returns:
\* (std * sqrt(252) * 100)^2 = var * 252 * 10000.  Squaring is one-to-one and
\* monotone on the non-negative floats, so definedness, equality and sign carry over.
calculate_volatility(data, period) ==
    IF Len(data) < period + 1 THEN Repeat(None, Len(data))
    ELSE LET returns == pct_change(data)
             variance == rolling_var(returns, period)
         IN  [i \in 1..Len(data) |->
                 IF IsNum(variance[i]) THEN FMul(variance[i], Float(2520000)) ELSE NaN]

\* volume subtracted on a rise and added on a fall
RECURSIVE obv_loop_swapped(_, _, _)
obv_loop_swapped(close_prices, volumes, upto) ==
    IF upto = 1 THEN <<Float(0)>>
    ELSE LET obv == obv_loop_swapped(close_prices, volumes, upto - 1)
             last == obv[upto - 1]
         IN  IF FLess(close_prices[upto - 1], close_prices[upto])
             THEN Append(obv, FSub(last, volumes[upto]))
             ELSE IF FLess(close_prices[upto], close_prices[upto - 1])
             THEN Append(obv, FAdd(last, volumes[upto]))
             ELSE Append(obv, last)

RECURSIVE obv_loop(_, _, _)
obv_loop(close_prices, volumes, upto) ==
    IF upto = 1 THEN <<Float(0)>>
    ELSE LET obv == obv_loop(close_prices, volumes, upto - 1)
             last == obv[upto - 1]
         IN  IF FLess(close_prices[upto - 1], close_prices[upto])
             THEN Append(obv, FAdd(last, volumes[upto]))
             ELSE IF FLess(close_prices[upto], close_prices[upto - 1])
             THEN Append(obv, FSub(last, volumes[upto]))
             ELSE Append(obv, last)

calculate_obv(close_prices, volumes) ==
    IF Len(close_prices) # Len(volumes) \/ Len(close_prices) < 2
    THEN Repeat(None, Len(close_prices))
    ELSE obv_loop(close_prices, volumes, Len(close_prices))

\* seeded with the first volume instead of 0
RECURSIVE vpt_loop_seeded(_, _, _)
vpt_loop_seeded(close_prices, volumes, upto) ==
    IF upto = 1 THEN <<volumes[1]>>
    ELSE LET vpt == vpt_loop_seeded(close_prices, volumes, upto - 1)
             last == vpt[upto - 1]
         IN  IF close_prices[upto - 1].n # 0
             THEN LET price_change_pct ==
                          FDiv(FSub(close_prices[upto], close_prices[upto - 1]),
                               close_prices[upto - 1])
                  IN  Append(vpt, FAdd(last, FMul(volumes[upto], price_change_pct)))
             ELSE Append(vpt, last)

\* the volume of the earlier bar in place of volumes[i]
RECURSIVE vpt_loop_earlier_volume(_, _, _)
vpt_loop_earlier_volume(close_prices, volumes, upto) ==
    IF upto = 1 THEN <<Float(0)>>
    ELSE LET vpt == vpt_loop_earlier_volume(close_prices, volumes, upto - 1)
             last == vpt[upto - 1]
         IN  IF close_prices[upto - 1].n # 0
             THEN LET price_change_pct ==
                          FDiv(FSub(close_prices[upto], close_prices[upto - 1]),
                               close_prices[upto - 1])
                  IN  Append(vpt, FAdd(last, FMul(volumes[upto - 1], price_change_pct)))
             ELSE Append(vpt, last)

RECURSIVE vpt_loop(_, _, _)
vpt_loop(close_prices, volumes, upto) ==
    IF upto = 1 THEN <<Float(0)>>
    ELSE LET vpt == vpt_loop(close_prices, volumes, upto - 1)
             last == vpt[upto - 1]
         IN  IF close_prices[upto - 1].n # 0
             THEN LET price_change_pct ==
                          FDiv(FSub(close_prices[upto], close_prices[upto - 1]),
                               close_prices[upto - 1])
                  IN  Append(vpt, FAdd(last, FMul(volumes[upto], price_change_pct)))
             ELSE Append(vpt, last)

calculate_vpt(close_prices, volumes) ==
    IF Len(close_prices) # Len(volumes) \/ Len(close_prices) < 2
    THEN Repeat(None, Len(close_prices))
    ELSE vpt_loop(close_prices, volumes, Len(close_prices))

\* "macd_line.append(ema_fast[i] - ema_slow[i]) ... else: macd_line.append(None)"
macd_line_of(ema_fast, ema_slow) ==
    [i \in 1..Len(ema_fast) |->
        IF ema_fast[i] # None /\ ema_slow[i] # None
        THEN FSub(ema_fast[i], ema_slow[i])
        ELSE None]

\* the padding appended after the signal values
pad_signal_right(macd_line, signal_ema) ==
    signal_ema \o Repeat(None, Len(macd_line) - Len(signal_ema))

\* "signal_line = [None] * (len(macd_line) - len(signal_ema)) + signal_ema"
pad_signal(macd_line, signal_ema) ==
    Repeat(None, Len(macd_line) - Len(signal_ema)) \o signal_ema

\* the signal line: an EMA of the defined MACD values, padded on the left
signal_line_of(macd_line, macd_values, signal_period) ==
    IF Len(macd_values) >= signal_period
    THEN pad_signal(macd_line, calculate_ema(macd_values, signal_period))
    ELSE Repeat(None, Len(macd_line))

\* a missing signal value counted as 0 in the histogram
macd_result_signal_default(macd_line, signal_line) ==
    [macd |-> macd_line,
     signal |-> signal_line,
     histogram |-> [i \in 1..Len(macd_line) |->
                      IF macd_line[i] = None THEN None
                      ELSE IF signal_line[i] = None THEN macd_line[i]
                      ELSE FSub(macd_line[i], signal_line[i])]]

\* "histogram.append(macd_line[i] - signal_line[i]) ... else: histogram.append(None)"
macd_result(macd_line, signal_line) ==
    [macd |-> macd_line,
     signal |-> signal_line,
     histogram |-> [i \in 1..Len(macd_line) |->
                      IF macd_line[i] # None /\ signal_line[i] # None
                      THEN FSub(macd_line[i], signal_line[i])
                      ELSE None]]

\* the three lines, given the MACD line
macd_from_line(macd_line, signal_period) ==
    macd_result(macd_line,
                signal_line_of(macd_line, SelectSeq(macd_line, LAMBDA x : x # None),
                               signal_period))

calculate_macd(data, fast_period, slow_period, signal_period) ==
    IF Len(data) < slow_period
    THEN [macd |-> Repeat(None, Len(data)),
          signal |-> Repeat(None, Len(data)),
          histogram |-> Repeat(None, Len(data))]
    ELSE macd_from_line(macd_line_of(calculate_ema(data, fast_period),
                                     calculate_ema(data, slow_period)),
                        signal_period)

----------------------------------------------------------------------------
(* Calculator calls on a bar series: the inputs are drawn in InitCalc, each  *)
(* action is one call of a calculator and records what it returned.          *)

Prices == 0..MaxPrice
Volumes == {1, 2}
Periods == 1..MaxPeriod

BoundedSeq(S, bound) == UNION {[1..len -> S] : len \in 0..bound}

NoCall == [fn |-> "none", period |-> 0, fast_period |-> 0, slow_period |-> 0,
           signal_period |-> 0, volumes |-> <<>>, out |-> <<>>]

Call(fn, period, volumes, out) ==
    [fn |-> fn, period |-> period, fast_period |-> 0, slow_period |-> 0,
     signal_period |-> 0, volumes |-> volumes, out |-> out]

\* the volume lists a caller can pass next to closeSeries: an index-aligned
\* one, the same with its last entry missing, the same with one entry more
VolumeArgs ==
    LET aligned == [1..Len(closeSeries) -> Volumes]
    IN  aligned \cup {Append(v, 1) : v \in aligned}
                \cup {SubSeq(v, 1, Len(v) - 1) : v \in {x \in aligned : x # <<>>}}

CallEma(period) ==
    /\ calcOut.fn = "none"
    /\ calcOut' = Call("ema", period, <<>>, calculate_ema(Floats(closeSeries), period))
    /\ UNCHANGED <<closeSeries, resolveVars, storeVars>>

CallSma(period) ==
    /\ calcOut.fn = "none"
    /\ calcOut' = Call("sma", period, <<>>, calculate_sma(Floats(closeSeries), period))
    /\ UNCHANGED <<closeSeries, resolveVars, storeVars>>

CallRsi(period) ==
    /\ calcOut.fn = "none"
    /\ calcOut' = Call("rsi", period, <<>>, calculate_rsi(Floats(closeSeries), period))
    /\ UNCHANGED <<closeSeries, resolveVars, storeVars>>

CallVolatility(period) ==
    /\ calcOut.fn = "none"
    /\ calcOut' = Call("volatility", period, <<>>,
                       calculate_volatility(Floats(closeSeries), period))
    /\ UNCHANGED <<closeSeries, resolveVars, storeVars>>

CallObv(volumes) ==
    /\ calcOut.fn = "none"
    /\ calcOut' = Call("obv", 0, volumes,
                       calculate_obv(Floats(closeSeries), Floats(volumes)))
    /\ UNCHANGED <<closeSeries, resolveVars, storeVars>>

CallVpt(volumes) ==
    /\ calcOut.fn = "none"
    /\ calcOut' = Call("vpt", 0, volumes,
                       calculate_vpt(Floats(closeSeries), Floats(volumes)))
    /\ UNCHANGED <<closeSeries, resolveVars, storeVars>>

CallMacd(fast_period, slow_period, signal_period) ==
    /\ calcOut.fn = "none"
    /\ calcOut' = [fn |-> "macd", period |-> 0, fast_period |-> fast_period,
                   slow_period |-> slow_period, signal_period |-> signal_period,
                   volumes |-> <<>>,
                   out |-> calculate_macd(Floats(closeSeries), fast_period,
                                          slow_period, signal_period)]
    /\ UNCHANGED <<closeSeries, resolveVars, storeVars>>

----------------------------------------------------------------------------
(* Timeframe resolver (routers/data.py) *)

FirstSimDay == 1440   \* resolver inputs: 2003-12-11 ...
LastSimDay == 1840    \* ... 2005-01-14 (2004 is a leap year)

NoDate == <<>>        \* an absent Optional[date]; <<d>> is the date d

IsLeap(year) == (year % 4 = 0 /\ year % 100 # 0) \/ year % 400 = 0
DaysInYear(year) == IF IsLeap(year) THEN 366 ELSE 365

\* date(year, 1, 1) as a day number, year >= 2000
RECURSIVE Jan1(_)
Jan1(year) == IF year <= 2000 THEN 0 ELSE Jan1(year - 1) + DaysInYear(year - 1)

\* date.year
RECURSIVE YearFrom(_, _)
YearFrom(day, year) == IF day < Jan1(year + 1) THEN year ELSE YearFrom(day, year + 1)
YearOf(day) == YearFrom(day, 2000)

TimeframeCodes == {"1W", "1M", "3M", "6M", "1Y", "YTD", "5Y", "1y", "ytd", "2Y", ""}

\* 1M counted as 31 days
calculate_start_date_31(simulated_date, timeframe) ==
    IF timeframe = "1W" THEN simulated_date - 7
    ELSE IF timeframe = "1M" THEN simulated_date - 31
    ELSE IF timeframe = "3M" THEN simulated_date - 90
    ELSE IF timeframe = "6M" THEN simulated_date - 180
    ELSE IF timeframe = "1Y" THEN simulated_date - 365
    ELSE IF timeframe = "YTD" THEN Jan1(YearOf(simulated_date))
    ELSE IF timeframe = "5Y" THEN simulated_date - 1825
    ELSE simulated_date - 365

\* YTD resolved to December 31 of the year
calculate_start_date_year_end(simulated_date, timeframe) ==
    IF timeframe = "1W" THEN simulated_date - 7
    ELSE IF timeframe = "1M" THEN simulated_date - 30
    ELSE IF timeframe = "3M" THEN simulated_date - 90
    ELSE IF timeframe = "6M" THEN simulated_date - 180
    ELSE IF timeframe = "1Y" THEN simulated_date - 365
    ELSE IF timeframe = "YTD" THEN Jan1(YearOf(simulated_date) + 1) - 1
    ELSE IF timeframe = "5Y" THEN simulated_date - 1825
    ELSE simulated_date - 365

calculate_start_date(simulated_date, timeframe) ==
    IF timeframe = "1W" THEN simulated_date - 7
    ELSE IF timeframe = "1M" THEN simulated_date - 30
    ELSE IF timeframe = "3M" THEN simulated_date - 90
    ELSE IF timeframe = "6M" THEN simulated_date - 180
    ELSE IF timeframe = "1Y" THEN simulated_date - 365
    ELSE IF timeframe = "YTD" THEN Jan1(YearOf(simulated_date))
    ELSE IF timeframe = "5Y" THEN simulated_date - 1825
    ELSE simulated_date - 365

Resolve ==
    /\ rStart = NoDate
    /\ rStart' = <<calculate_start_date(rSim, rCode)>>
    /\ UNCHANGED <<rSim, rCode, calcVars, storeVars>>

----------------------------------------------------------------------------
(* Bar store: table stock_data (models/database.py).  A row is               *)
(* [date, close, volume]; open, high, low and adj_close are stored but read  *)
(* by none of the operations below.  (symbol, date) is unique.               *)

BaseDay == 1886                      \* 2005-03-01
BarDates == {BaseDay - 400, BaseDay - 40, BaseDay - 7, BaseDay + 10}
BarValues == {[close |-> 10, volume |-> 100], [close |-> 12, volume |-> 300]}
SimDates == {BaseDay, BaseDay + 10}
MaxReqPeriod == 2                    \* request periods are 1..MaxReqPeriod

StoredSymbols == {"AAPL", "MSFT"}
RequestSymbols == {"AAPL", "aapl"}
ImportSymbols == {"AAPL"}

\* str.upper()
Upper(symbol) == IF symbol = "aapl" THEN "AAPL" ELSE symbol

Row(date, bar) == [date |-> date, close |-> bar.close, volume |-> bar.volume]

\* .order_by(StockData.date.asc()).all()
RECURSIVE OrderByDateAsc(_)
OrderByDateAsc(rows) ==
    IF rows = {} THEN <<>>
    ELSE LET first == CHOOSE r \in rows : \A q \in rows : r.date <= q.date
         IN  <<first>> \o OrderByDateAsc(rows \ {first})

\* db.query(StockData).filter(StockData.symbol == symbol.upper())
SymbolRows(store, symbol) == store[Upper(symbol)]

\* ascending order: the oldest row
LatestRow_oldest(rows) ==
    IF rows = {} THEN <<>>
    ELSE <<CHOOSE r \in rows : \A q \in rows : r.date <= q.date>>

\* ....order_by(StockData.date.desc()).first(): <<>> when there is no row
LatestRow(rows) ==
    IF rows = {} THEN <<>>
    ELSE <<CHOOSE r \in rows : \A q \in rows : q.date <= r.date>>

\* the window query without its lower bound
QueryWindow_from_first(store, symbol, start_date, simulated_date) ==
    OrderByDateAsc({r \in SymbolRows(store, symbol) : r.date <= simulated_date})

\* the window query without its upper bound
QueryWindow_unclamped(store, symbol, start_date, simulated_date) ==
    OrderByDateAsc({r \in SymbolRows(store, symbol) : r.date >= start_date})

\* the window query every data / indicator operation issues
QueryWindow(store, symbol, start_date, simulated_date) ==
    OrderByDateAsc({r \in SymbolRows(store, symbol) :
                        r.date >= start_date /\ r.date <= simulated_date})

----------------------------------------------------------------------------
(* Service operations (services/indicator_calc.py).  A service result is     *)
(* [error, symbol, data]: error is <<>> on success, otherwise the message as *)
(* <<template, symbol, timeframe>>.  The echoed request parameters (period,  *)
(* timeframe, ...) of the payload are left out: they are the request's.      *)

ErrNoSymbol(symbol) == <<"No data found for symbol {symbol}", symbol, "">>
ErrNoWindow(symbol, timeframe) ==
    <<"No data found for {symbol} in timeframe {timeframe}", symbol, timeframe>>
ErrNoWindowData(symbol) ==
    <<"No data found for {symbol} in the specified timeframe", symbol, "">>

Failure(error) == [error |-> error, symbol |-> "", data |-> <<>>]
Success(symbol, data) == [error |-> <<>>, symbol |-> symbol, data |-> data]

\* the calendar date of the call in place of the latest bar date
EffectiveDate_calendar_today(store, symbol, simulated_date) ==
    IF simulated_date = NoDate
    THEN LET latest_data == LatestRow(SymbolRows(store, symbol))
         IN  IF latest_data # <<>> THEN <<BaseDay + 30>> ELSE NoDate
    ELSE simulated_date

\* "if simulated_date is None: ... latest_data.date": the date the request is
\* evaluated at, NoDate when omitted and the symbol has no row
EffectiveDate(store, symbol, simulated_date) ==
    IF simulated_date = NoDate
    THEN LET latest_data == LatestRow(SymbolRows(store, symbol))
         IN  IF latest_data # <<>> THEN <<latest_data[1].date>> ELSE NoDate
    ELSE simulated_date

\* the rows the calculators of a request see
WindowRows(store, symbol, sim_date, timeframe) ==
    QueryWindow(store, symbol, calculate_start_date(sim_date, timeframe), sim_date)

ClosePrices(stock_data) == Floats([i \in 1..Len(stock_data) |-> stock_data[i].close])
VolumeList(stock_data) == Floats([i \in 1..Len(stock_data) |-> stock_data[i].volume])

\* pd.isna(x) or x is None
IsMissing(value) == value = None \/ value = NaN

\* only None filtered out, NaN kept
DefinedPoints_not_none(stock_data, values) ==
    SelectSeq([i \in 1..Len(stock_data) |-> <<stock_data[i].date, values[i]>>],
              LAMBDA pair : pair[2] # None)

\* "for i, data in enumerate(stock_data): if <value defined>: append(point)"
DefinedPoints(stock_data, values) ==
    SelectSeq([i \in 1..Len(stock_data) |-> <<stock_data[i].date, values[i]>>],
              LAMBDA pair : ~IsMissing(pair[2]))

get_stock_indicators(store, symbol, simulated_date, timeframe, ema_period) ==
    LET sim == EffectiveDate(store, symbol, simulated_date)
    IN  IF sim = NoDate THEN Failure(ErrNoSymbol(symbol))
        ELSE LET stock_data == WindowRows(store, symbol, sim[1], timeframe)
             IN  IF stock_data = <<>> THEN Failure(ErrNoWindow(symbol, timeframe))
                 ELSE LET ema_values == calculate_ema(ClosePrices(stock_data), ema_period)
                          macd_data == calculate_macd(ClosePrices(stock_data), 12, 26, 9)
                      IN  Success(Upper(symbol),
                                  [i \in 1..Len(stock_data) |->
                                      [date |-> stock_data[i].date,
                                       ema |-> ema_values[i],
                                       macd |-> macd_data.macd[i],
                                       macd_signal |-> macd_data.signal[i],
                                       macd_histogram |-> macd_data.histogram[i]]])

get_ema_data(store, symbol, period, simulated_date, timeframe) ==
    LET result == get_stock_indicators(store, symbol, simulated_date, timeframe, period)
        indicators == result.data
    IN  IF result.error # <<>> THEN result
        ELSE Success(Upper(symbol),
                     SelectSeq([i \in 1..Len(indicators) |->
                                   [date |-> indicators[i].date, ema |-> indicators[i].ema]],
                               LAMBDA point : point.ema # None))

\* the "ema" field carries the SMA value ("for consistency with frontend")
get_sma_data(store, symbol, period, simulated_date, timeframe) ==
    LET sim == EffectiveDate(store, symbol, simulated_date)
    IN  IF sim = NoDate THEN Failure(ErrNoSymbol(symbol))
        ELSE LET stock_data == WindowRows(store, symbol, sim[1], timeframe)
                 kept == DefinedPoints(stock_data, calculate_sma(ClosePrices(stock_data), period))
             IN  IF stock_data = <<>> THEN Failure(ErrNoWindow(symbol, timeframe))
                 ELSE Success(Upper(symbol),
                              [i \in 1..Len(kept) |->
                                  [date |-> kept[i][1], ema |-> kept[i][2]]])

get_rsi_data(store, symbol, period, simulated_date, timeframe) ==
    LET sim == EffectiveDate(store, symbol, simulated_date)
    IN  IF sim = NoDate THEN Failure(ErrNoSymbol(symbol))
        ELSE LET stock_data == WindowRows(store, symbol, sim[1], timeframe)
                 kept == DefinedPoints(stock_data, calculate_rsi(ClosePrices(stock_data), period))
             IN  IF stock_data = <<>> THEN Failure(ErrNoWindow(symbol, timeframe))
                 ELSE Success(Upper(symbol),
                              [i \in 1..Len(kept) |->
                                  [date |-> kept[i][1], rsi |-> kept[i][2]]])

get_obv_data(store, symbol, simulated_date, timeframe) ==
    LET sim == EffectiveDate(store, symbol, simulated_date)
    IN  IF sim = NoDate THEN Failure(ErrNoSymbol(symbol))
        ELSE LET stock_data == WindowRows(store, symbol, sim[1], timeframe)
                 kept == DefinedPoints(stock_data, calculate_obv(ClosePrices(stock_data), VolumeList(stock_data)))
             IN  IF stock_data = <<>> THEN Failure(ErrNoWindow(symbol, timeframe))
                 ELSE Success(Upper(symbol),
                              [i \in 1..Len(kept) |->
                                  [date |-> kept[i][1], obv |-> kept[i][2]]])

get_vpt_data(store, symbol, simulated_date, timeframe) ==
    LET sim == EffectiveDate(store, symbol, simulated_date)
    IN  IF sim = NoDate THEN Failure(ErrNoSymbol(symbol))
        ELSE LET stock_data == WindowRows(store, symbol, sim[1], timeframe)
                 kept == DefinedPoints(stock_data, calculate_vpt(ClosePrices(stock_data), VolumeList(stock_data)))
             IN  IF stock_data = <<>> THEN Failure(ErrNoWindow(symbol, timeframe))
                 ELSE Success(Upper(symbol),
                              [i \in 1..Len(kept) |->
                                  [date |-> kept[i][1], vpt |-> kept[i][2]]])

get_vix_data(store, symbol, period, simulated_date, timeframe) ==
    LET sim == EffectiveDate(store, symbol, simulated_date)
    IN  IF sim = NoDate THEN Failure(ErrNoSymbol(symbol))
        ELSE LET stock_data == WindowRows(store, symbol, sim[1], timeframe)
                 kept == DefinedPoints(stock_data, calculate_volatility(ClosePrices(stock_data), period))
             IN  IF stock_data = <<>> THEN Failure(ErrNoWindow(symbol, timeframe))
                 ELSE Success(Upper(symbol),
                              [i \in 1..Len(kept) |->
                                  [date |-> kept[i][1], volatility |-> kept[i][2]]])

\* points only where all three lines are defined
get_macd_data_complete_only(store, symbol, fast_period, slow_period, signal_period, simulated_date, timeframe) ==
    LET sim == EffectiveDate(store, symbol, simulated_date)
    IN  IF sim = NoDate THEN Failure(ErrNoSymbol(symbol))
        ELSE LET stock_data == WindowRows(store, symbol, sim[1], timeframe)
                 macd_data == calculate_macd(ClosePrices(stock_data), fast_period,
                                             slow_period, signal_period)
             IN  IF stock_data = <<>> THEN Failure(ErrNoWindow(symbol, timeframe))
                 ELSE Success(Upper(symbol),
                              SelectSeq([i \in 1..Len(stock_data) |->
                                            [date |-> stock_data[i].date,
                                             macd |-> macd_data.macd[i],
                                             signal |-> macd_data.signal[i],
                                             histogram |-> macd_data.histogram[i]]],
                                        LAMBDA point : point.histogram # None))

get_macd_data(store, symbol, fast_period, slow_period, signal_period, simulated_date, timeframe) ==
    LET sim == EffectiveDate(store, symbol, simulated_date)
    IN  IF sim = NoDate THEN Failure(ErrNoSymbol(symbol))
        ELSE LET stock_data == WindowRows(store, symbol, sim[1], timeframe)
                 macd_data == calculate_macd(ClosePrices(stock_data), fast_period,
                                             slow_period, signal_period)
             IN  IF stock_data = <<>> THEN Failure(ErrNoWindow(symbol, timeframe))
                 ELSE Success(Upper(symbol),
                              SelectSeq([i \in 1..Len(stock_data) |->
                                            [date |-> stock_data[i].date,
                                             macd |-> macd_data.macd[i],
                                             signal |-> macd_data.signal[i],
                                             histogram |-> macd_data.histogram[i]]],
                                        LAMBDA point : point.macd # None))

----------------------------------------------------------------------------
(* Watchlist and stock details (routers/watchlist.py,                         *)
(* services/stock_service.py).  Prices are Decimal in the code; the model     *)
(* keeps change_percent as the exact quotient.  The 52-week range of the      *)
(* details payload is left out: it reads the high and low columns only.       *)

MaxSymbols == 2                      \* entries of the symbols parameter

\* the entries of the comma-separated symbols parameter
WatchEntries == {"AAPL", " aapl ", "MSFT", ""}

\* s.strip()
Strip(entry) == IF entry = " aapl " THEN "aapl" ELSE entry

\* [s.strip().upper() for s in symbols.split(',') if s.strip()]
symbol_list(symbols) ==
    LET kept == SelectSeq(symbols, LAMBDA s : Strip(s) # "")
    IN  [i \in 1..Len(kept) |-> Upper(Strip(kept[i]))]

\* the bar before `current` of the same symbol, <<>> if there is none
previous_row(rows, current) == LatestRow({r \in rows : r.date < current.date})

\* (change, change_percent) of a bar against the bar before it; the Decimal
\* division raises (DivisionByZero, InvalidOperation) when the earlier close is 0
PriceChange(raised, change, change_percent) ==
    [raised |-> raised, change |-> change, change_percent |-> change_percent]

\* the earlier close minus the current one
calculate_price_change_reversed(current, previous) ==
    IF previous = <<>> THEN PriceChange(FALSE, 0, Float(0))
    ELSE IF previous[1].close = 0 THEN PriceChange(TRUE, 0, Float(0))
    ELSE PriceChange(FALSE, previous[1].close - current.close,
                     FDiv(Float((previous[1].close - current.close) * 100),
                          Float(previous[1].close)))

calculate_price_change(current, previous) ==
    IF previous = <<>> THEN PriceChange(FALSE, 0, Float(0))
    ELSE IF previous[1].close = 0 THEN PriceChange(TRUE, 0, Float(0))
    ELSE PriceChange(FALSE, current.close - previous[1].close,
                     FDiv(Float((current.close - previous[1].close) * 100),
                          Float(previous[1].close)))

\* current_data of one iteration of the loop of get_watchlist
watchlist_current(store, symbol, sim_date) ==
    LatestRow({r \in store[symbol] : sim_date = NoDate \/ r.date <= sim_date[1]})

\* one iteration of the loop of get_watchlist: the item of a symbol, or nothing
watchlist_item(store, symbol, sim_date) ==
    LET current_data == watchlist_current(store, symbol, sim_date)
    IN  IF current_data = <<>> THEN <<>>
        ELSE LET change == calculate_price_change(current_data[1],
                                                  previous_row(store[symbol], current_data[1]))
             IN  <<[symbol |-> symbol, name |-> symbol,
                    last_price |-> current_data[1].close, net_change |-> change.change,
                    change_percent |-> change.change_percent,
                    volume |-> current_data[1].volume]>>

\* an iteration of the loop raises: nothing in get_watchlist catches it
watchlist_raises(store, symbols, sim_date) ==
    \E i \in 1..Len(symbols) :
        LET current_data == watchlist_current(store, symbols[i], sim_date)
        IN  /\ current_data # <<>>
            /\ calculate_price_change(current_data[1],
                    previous_row(store[symbols[i]], current_data[1])).raised

RECURSIVE watchlist_items(_, _, _)
watchlist_items(store, symbols, sim_date) ==
    IF symbols = <<>> THEN <<>>
    ELSE watchlist_item(store, Head(symbols), sim_date)
            \o watchlist_items(store, Tail(symbols), sim_date)

ErrNoSymbols == <<"No symbols provided", "", "">>

\* the 500 of an exception no handler catches
ErrInternal == <<"Internal Server Error", "", "">>

\* "Error retrieving stock details: {e}"
ErrDetails == <<"Error retrieving stock details: {e}", "", "">>

\* "No data found for {symbol} on or before {target_date}" (the date left out)
ErrNoDataBefore(symbol) == <<"No data found for {symbol} on or before {target_date}", symbol, "">>

----------------------------------------------------------------------------
(* Routers (routers/data.py, routers/indicators.py).  A response is           *)
(* [status, detail, symbol, data].                                            *)

Response(status, detail, symbol, data) ==
    [status |-> status, detail |-> detail, symbol |-> symbol, data |-> data]

NoResp == Response(0, <<>>, "", <<>>)

\* The simulated_date query parameter as the route receives it: absent (None),
\* or a string - empty, a YYYY-MM-DD date, or anything else.
Omitted == [kind |-> "omitted", day |-> 0]
EmptyString == [kind |-> "empty", day |-> 0]
Malformed == [kind |-> "malformed", day |-> 0]
DateString(day) == [kind |-> "date", day |-> day]

\* bool(simulated_date): None and "" are falsy
Truthy(raw) == raw.kind \in {"date", "malformed"}

ErrInvalidDate == <<"Invalid date format. Use YYYY-MM-DD", "", "">>

\* "if not simulated_date: return None", else strptime or HTTPException(400)
parse_simulated_date(raw) ==
    IF ~Truthy(raw) THEN [error |-> FALSE, date |-> NoDate]
    ELSE IF raw.kind = "date" THEN [error |-> FALSE, date |-> <<raw.day>>]
    ELSE [error |-> TRUE, date |-> NoDate]

\* sim_date of a request whose simulated_date parses
SimDate(raw) == parse_simulated_date(raw).date

\* an empty data collection reported as an error
handle_indicator_request_empty_404(sim_date, result) ==
    IF sim_date.error THEN Response(400, ErrInvalidDate, "", <<>>)
    ELSE IF result.error # <<>> THEN Response(404, result.error, "", <<>>)
    ELSE IF result.data = <<>> THEN Response(404, ErrNoWindowData(result.symbol), "", <<>>)
    ELSE Response(200, <<>>, result.symbol, result.data)

handle_indicator_request(sim_date, result) ==
    IF sim_date.error THEN Response(400, ErrInvalidDate, "", <<>>)
    ELSE IF result.error # <<>> THEN Response(404, result.error, "", <<>>)
    ELSE Response(200, <<>>, result.symbol, result.data)

get_stock_data(store, symbol, simulated_date, timeframe) ==
    LET parsed == parse_simulated_date(simulated_date)
        sim_date == EffectiveDate(store, symbol, parsed.date)
    IN  IF parsed.error THEN Response(400, ErrInvalidDate, "", <<>>)
        ELSE IF sim_date = NoDate THEN Response(404, ErrNoSymbol(symbol), "", <<>>)
        ELSE LET stock_data == WindowRows(store, symbol, sim_date[1], timeframe)
             IN  IF stock_data = <<>>
                 THEN Response(404, ErrNoWindowData(symbol), "", <<>>)
                 ELSE Response(200, <<>>, Upper(symbol), stock_data)

get_watchlist(store, symbols, simulated_date) ==
    IF symbol_list(symbols) = <<>> THEN Response(400, ErrNoSymbols, "", <<>>)
    ELSE IF parse_simulated_date(simulated_date).error
    THEN Response(400, ErrInvalidDate, "", <<>>)
    ELSE IF watchlist_raises(store, symbol_list(symbols), SimDate(simulated_date))
    THEN Response(500, ErrInternal, "", <<>>)
    ELSE Response(200, <<>>, "",
                  watchlist_items(store, symbol_list(symbols), SimDate(simulated_date)))

\* get_stock_details_service, with the ValueError -> 400 of the route
get_stock_details(store, symbol, simulated_date) ==
    LET sim_date == EffectiveDate(store, symbol, SimDate(simulated_date))
        current_data ==
            LatestRow({r \in SymbolRows(store, symbol) : r.date <= sim_date[1]})
    IN  IF parse_simulated_date(simulated_date).error
        THEN Response(400, ErrInvalidDate, "", <<>>)
        ELSE IF sim_date = NoDate THEN Response(400, ErrNoSymbol(symbol), "", <<>>)
        ELSE IF current_data = <<>> THEN Response(400, ErrNoDataBefore(symbol), "", <<>>)
        ELSE LET change == calculate_price_change(current_data[1],
                               previous_row(SymbolRows(store, symbol), current_data[1]))
             IN  IF change.raised THEN Response(500, ErrDetails, "", <<>>)
                 ELSE Response(200, <<>>, Upper(symbol),
                               <<[current_price |-> current_data[1].close,
                                  change |-> change.change,
                                  change_percent |-> change.change_percent,
                                  volume |-> current_data[1].volume]>>)

\* the operations that answer from a timeframe window
SeriesOps == {"ema", "sma", "rsi", "obv", "vpt", "vix"}
WindowOps == SeriesOps \cup {"macd", "data"}

ReqSymbolLists == UNION {[1..len -> WatchEntries] : len \in 1..MaxSymbols}

\* every branch of calculate_start_date runs in ResolveSpec; requests use the codes
\* that give different windows on BarDates, and the missing code
ReqTimeframes == {"1W", "1M", "YTD", "5Y", ""}
\* the MACD route is called with a short and a long window
MacdTimeframes == {"1W", "5Y"}
ReqDates == {Omitted, EmptyString, Malformed} \cup {DateString(day) : day \in SimDates}
ReqPeriods == 1..MaxReqPeriod

Request(op, symbol, simulated_date, timeframe, period, fast_period, slow_period, signal_period) ==
    [op |-> op, symbol |-> symbol, simulated_date |-> simulated_date,
     timeframe |-> timeframe, period |-> period, fast_period |-> fast_period,
     slow_period |-> slow_period, signal_period |-> signal_period, symbols |-> <<>>]

NoReq == Request("none", "", Omitted, "", 0, 0, 0, 0)

\* the response the route of request r gives on a store
Handle(store, r) ==
    CASE r.op = "data" ->
            get_stock_data(store, r.symbol, r.simulated_date, r.timeframe)
      [] r.op = "ema" ->
            handle_indicator_request(parse_simulated_date(r.simulated_date),
                get_ema_data(store, r.symbol, r.period, SimDate(r.simulated_date),
                             r.timeframe))
      [] r.op = "sma" ->
            handle_indicator_request(parse_simulated_date(r.simulated_date),
                get_sma_data(store, r.symbol, r.period, SimDate(r.simulated_date),
                             r.timeframe))
      [] r.op = "rsi" ->
            handle_indicator_request(parse_simulated_date(r.simulated_date),
                get_rsi_data(store, r.symbol, r.period, SimDate(r.simulated_date),
                             r.timeframe))
      [] r.op = "obv" ->
            handle_indicator_request(parse_simulated_date(r.simulated_date),
                get_obv_data(store, r.symbol, SimDate(r.simulated_date), r.timeframe))
      [] r.op = "vpt" ->
            handle_indicator_request(parse_simulated_date(r.simulated_date),
                get_vpt_data(store, r.symbol, SimDate(r.simulated_date), r.timeframe))
      [] r.op = "vix" ->
            handle_indicator_request(parse_simulated_date(r.simulated_date),
                get_vix_data(store, r.symbol, r.period, SimDate(r.simulated_date),
                             r.timeframe))
      [] r.op = "watchlist" -> get_watchlist(store, r.symbols, r.simulated_date)
      [] r.op = "details" -> get_stock_details(store, r.symbol, r.simulated_date)
      [] r.op = "macd" ->
            handle_indicator_request(parse_simulated_date(r.simulated_date),
                get_macd_data(store, r.symbol, r.fast_period, r.slow_period,
                              r.signal_period, SimDate(r.simulated_date), r.timeframe))

GetStockData(symbol, simulated_date, timeframe) ==
    /\ req.op = "none"
    /\ req' = Request("data", symbol, simulated_date, timeframe, 0, 0, 0, 0)
    /\ resp' = get_stock_data(db, symbol, simulated_date, timeframe)
    /\ UNCHANGED <<db, session, importLog, calcVars, resolveVars>>

GetEma(symbol, period, simulated_date, timeframe) ==
    /\ req.op = "none"
    /\ req' = Request("ema", symbol, simulated_date, timeframe, period, 0, 0, 0)
    /\ resp' = handle_indicator_request(parse_simulated_date(simulated_date),
                    get_ema_data(db, symbol, period, SimDate(simulated_date), timeframe))
    /\ UNCHANGED <<db, session, importLog, calcVars, resolveVars>>

GetSma(symbol, period, simulated_date, timeframe) ==
    /\ req.op = "none"
    /\ req' = Request("sma", symbol, simulated_date, timeframe, period, 0, 0, 0)
    /\ resp' = handle_indicator_request(parse_simulated_date(simulated_date),
                    get_sma_data(db, symbol, period, SimDate(simulated_date), timeframe))
    /\ UNCHANGED <<db, session, importLog, calcVars, resolveVars>>

\* a handler that keeps state between calls: it drops the rows it has served
GetRsi_consuming(symbol, period, simulated_date, timeframe) ==
    /\ req.op = "none"
    /\ req' = Request("rsi", symbol, simulated_date, timeframe, period, 0, 0, 0)
    /\ resp' = handle_indicator_request(parse_simulated_date(simulated_date),
                    get_rsi_data(db, symbol, period, SimDate(simulated_date), timeframe))
    /\ db' = [db EXCEPT ![Upper(symbol)] = {}]
    /\ UNCHANGED <<session, importLog, calcVars, resolveVars>>

GetRsi(symbol, period, simulated_date, timeframe) ==
    /\ req.op = "none"
    /\ req' = Request("rsi", symbol, simulated_date, timeframe, period, 0, 0, 0)
    /\ resp' = handle_indicator_request(parse_simulated_date(simulated_date),
                    get_rsi_data(db, symbol, period, SimDate(simulated_date), timeframe))
    /\ UNCHANGED <<db, session, importLog, calcVars, resolveVars>>

GetObv(symbol, simulated_date, timeframe) ==
    /\ req.op = "none"
    /\ req' = Request("obv", symbol, simulated_date, timeframe, 0, 0, 0, 0)
    /\ resp' = handle_indicator_request(parse_simulated_date(simulated_date),
                    get_obv_data(db, symbol, SimDate(simulated_date), timeframe))
    /\ UNCHANGED <<db, session, importLog, calcVars, resolveVars>>

GetVpt(symbol, simulated_date, timeframe) ==
    /\ req.op = "none"
    /\ req' = Request("vpt", symbol, simulated_date, timeframe, 0, 0, 0, 0)
    /\ resp' = handle_indicator_request(parse_simulated_date(simulated_date),
                    get_vpt_data(db, symbol, SimDate(simulated_date), timeframe))
    /\ UNCHANGED <<db, session, importLog, calcVars, resolveVars>>

GetVix(symbol, period, simulated_date, timeframe) ==
    /\ req.op = "none"
    /\ req' = Request("vix", symbol, simulated_date, timeframe, period, 0, 0, 0)
    /\ resp' = handle_indicator_request(parse_simulated_date(simulated_date),
                    get_vix_data(db, symbol, period, SimDate(simulated_date), timeframe))
    /\ UNCHANGED <<db, session, importLog, calcVars, resolveVars>>

GetMacd(symbol, fast_period, slow_period, signal_period, simulated_date, timeframe) ==
    /\ req.op = "none"
    /\ req' = Request("macd", symbol, simulated_date, timeframe, 0, fast_period,
                      slow_period, signal_period)
    /\ resp' = handle_indicator_request(parse_simulated_date(simulated_date),
                    get_macd_data(db, symbol, fast_period, slow_period, signal_period,
                                  SimDate(simulated_date), timeframe))
    /\ UNCHANGED <<db, session, importLog, calcVars, resolveVars>>

GetWatchlist(symbols, simulated_date) ==
    /\ req.op = "none"
    /\ req' = [Request("watchlist", "", simulated_date, "", 0, 0, 0, 0)
                  EXCEPT !.symbols = symbols]
    /\ resp' = get_watchlist(db, symbols, simulated_date)
    /\ UNCHANGED <<db, session, importLog, calcVars, resolveVars>>

GetStockDetails(symbol, simulated_date) ==
    /\ req.op = "none"
    /\ req' = Request("details", symbol, simulated_date, "", 0, 0, 0, 0)
    /\ resp' = get_stock_details(db, symbol, simulated_date)
    /\ UNCHANGED <<db, session, importLog, calcVars, resolveVars>>

\* the response has been sent; the handler keeps nothing
Respond ==
    /\ req.op # "none"
    /\ req' = NoReq
    /\ resp' = NoResp
    /\ UNCHANGED <<db, session, importLog, calcVars, resolveVars>>

----------------------------------------------------------------------------
(* CSV import (services/data_import.py).  Rows are committed batch by batch; *)
(* the DELETE of the symbol's old rows is committed with the first batch.    *)

batch_size == 2    \* 100 in the source; scaled to the size of the model's files

Absent == [close |-> 0, volume |-> 0]

\* the CSV files: date-ascending rows on some of the BarDates, at least one row
CsvFiles ==
    {OrderByDateAsc({Row(day, content[day]) : day \in {x \in BarDates : content[x] # Absent}}) :
        content \in [BarDates -> BarValues \cup {Absent}]} \ {<<>>}

\* the CSV files of the watchlist symbols; float(row['Close']) takes any number,
\* a close of 0 included
WatchDates == {BaseDay - 40, BaseDay - 7, BaseDay + 10}
WatchValues == {[close |-> 0, volume |-> 100], [close |-> 12, volume |-> 300]}
WatchCsvFiles ==
    {OrderByDateAsc({Row(day, content[day]) : day \in {x \in WatchDates : content[x] # Absent}}) :
        content \in [WatchDates -> WatchValues \cup {Absent}]} \ {<<>>}

Idle == [symbol |-> "", rows |-> <<>>]

Min(a, b) == IF a < b THEN a ELSE b
Batch(rows) == SubSeq(rows, 1, Min(batch_size, Len(rows)))
AfterBatch(rows) == SubSeq(rows, Min(batch_size, Len(rows)) + 1, Len(rows))
RowSet(rows) == {rows[i] : i \in 1..Len(rows)}

\* import_stock_from_csv up to its first commit: delete the old rows, add the
\* first batch, commit
first_commit(symbol, file) ==
    /\ session = Idle
    /\ req.op = "none"
    /\ db' = [db EXCEPT ![symbol] = RowSet(Batch(file))]
    /\ session' = IF AfterBatch(file) = <<>> THEN Idle
                  ELSE [symbol |-> symbol, rows |-> AfterBatch(file)]

ImportStart(symbol, file) ==
    /\ first_commit(symbol, file)
    /\ UNCHANGED <<importLog, req, resp, calcVars, resolveVars>>

\* one more iteration of the batch loop: add_all, commit
next_commit ==
    /\ session # Idle
    /\ req.op = "none"
    /\ db' = [db EXCEPT ![session.symbol] = @ \cup RowSet(Batch(session.rows))]
    /\ session' = IF AfterBatch(session.rows) = <<>> THEN Idle
                  ELSE [session EXCEPT !.rows = AfterBatch(session.rows)]

ImportBatch ==
    /\ next_commit
    /\ UNCHANGED <<importLog, req, resp, calcVars, resolveVars>>

\* an exception in a later batch: rollback of the uncommitted batch, return False
rollback ==
    /\ session # Idle
    /\ req.op = "none"
    /\ session' = Idle
    /\ UNCHANGED db

ImportRaise ==
    /\ rollback
    /\ UNCHANGED <<importLog, req, resp, calcVars, resolveVars>>

\* The same call followed by an observer: importLog keeps the symbol, the rows
\* stored before the call, the file, and what the call has returned so far.
NoImport == [symbol |-> "", before |-> {}, file |-> <<>>, returned |-> "none"]

Returned(rows_left) == IF rows_left = <<>> THEN "True" ELSE "running"

ObservedImportStart(symbol, file) ==
    /\ first_commit(symbol, file)
    /\ importLog' = [symbol |-> symbol, before |-> db[symbol], file |-> file,
                     returned |-> Returned(AfterBatch(file))]
    /\ UNCHANGED <<req, resp, calcVars, resolveVars>>

ObservedImportBatch ==
    /\ next_commit
    /\ importLog' = [importLog EXCEPT !.returned = Returned(AfterBatch(session.rows))]
    /\ UNCHANGED <<req, resp, calcVars, resolveVars>>

ObservedImportRaise ==
    /\ rollback
    /\ importLog' = [importLog EXCEPT !.returned = "False"]
    /\ UNCHANGED <<req, resp, calcVars, resolveVars>>

\* an exception before the first commit (a value float() rejects in the first
\* batch, a missing column): rollback of the DELETE, return False
ObservedImportReject(symbol, file) ==
    /\ session = Idle
    /\ req.op = "none"
    /\ importLog' = [symbol |-> symbol, before |-> db[symbol], file |-> file,
                     returned |-> "False"]
    /\ UNCHANGED <<db, session, req, resp, calcVars, resolveVars>>

----------------------------------------------------------------------------
(* Specifications *)

IdleCalc == closeSeries = <<>> /\ calcOut = NoCall
IdleResolve == rSim = BaseDay /\ rCode = "1Y" /\ rStart = NoDate
IdleStore ==
    /\ db = [symbol \in StoredSymbols |-> {}]
    /\ session = Idle
    /\ req = NoReq
    /\ resp = NoResp
    /\ importLog = NoImport

\* the service over its bar store, empty after init_db()
Init == IdleStore /\ IdleCalc /\ IdleResolve

Next ==
    \/ \E symbol \in ImportSymbols, file \in CsvFiles : ImportStart(symbol, file)
    \/ ImportBatch
    \/ ImportRaise
    \/ Respond
    \/ \E symbol \in RequestSymbols, simulated_date \in ReqDates, timeframe \in ReqTimeframes :
          GetStockData(symbol, simulated_date, timeframe)
    \/ \E symbol \in RequestSymbols, simulated_date \in ReqDates, timeframe \in ReqTimeframes :
          GetObv(symbol, simulated_date, timeframe)
    \/ \E symbol \in RequestSymbols, simulated_date \in ReqDates, timeframe \in ReqTimeframes :
          GetVpt(symbol, simulated_date, timeframe)
    \/ \E symbol \in RequestSymbols, simulated_date \in ReqDates, timeframe \in ReqTimeframes,
          period \in ReqPeriods :
          GetEma(symbol, period, simulated_date, timeframe)
    \/ \E symbol \in RequestSymbols, simulated_date \in ReqDates, timeframe \in ReqTimeframes,
          period \in ReqPeriods :
          GetSma(symbol, period, simulated_date, timeframe)
    \/ \E symbol \in RequestSymbols, simulated_date \in ReqDates, timeframe \in ReqTimeframes,
          period \in ReqPeriods :
          GetRsi(symbol, period, simulated_date, timeframe)
    \/ \E symbol \in RequestSymbols, simulated_date \in ReqDates, timeframe \in ReqTimeframes,
          period \in ReqPeriods :
          GetVix(symbol, period, simulated_date, timeframe)
    \/ \E symbol \in RequestSymbols, simulated_date \in ReqDates, timeframe \in MacdTimeframes,
          fast_period \in ReqPeriods, slow_period \in ReqPeriods, signal_period \in ReqPeriods :
          GetMacd(symbol, fast_period, slow_period, signal_period, simulated_date, timeframe)

    \/ \E symbols \in ReqSymbolLists, simulated_date \in ReqDates :
          GetWatchlist(symbols, simulated_date)
    \/ \E symbol \in RequestSymbols, simulated_date \in ReqDates :
          GetStockDetails(symbol, simulated_date)

Spec == Init /\ [][Next]_vars

\* one calculator call on a bar series
InitCalc ==
    /\ closeSeries \in BoundedSeq(Prices, MaxLen)
    /\ calcOut = NoCall
    /\ IdleStore
    /\ IdleResolve

NextCalc ==
    \/ \E period \in Periods : CallEma(period)
    \/ \E period \in Periods : CallSma(period)
    \/ \E period \in Periods : CallRsi(period)
    \/ \E period \in Periods : CallVolatility(period)
    \/ \E volumes \in VolumeArgs : CallObv(volumes)
    \/ \E volumes \in VolumeArgs : CallVpt(volumes)
    \/ \E fast_period \in Periods, slow_period \in Periods, signal_period \in Periods :
          CallMacd(fast_period, slow_period, signal_period)

CalcSpec == InitCalc /\ [][NextCalc]_vars

\* one call of the timeframe resolver
InitResolve ==
    /\ rSim \in FirstSimDay..LastSimDay
    /\ rCode \in TimeframeCodes
    /\ rStart = NoDate
    /\ IdleStore
    /\ IdleCalc

NextResolve == Resolve

ResolveSpec == InitResolve /\ [][NextResolve]_vars

\* the watchlist and details routes over the bars of two symbols
InitWatch == IdleStore /\ IdleCalc /\ IdleResolve

NextWatch ==
    \/ \E symbol \in StoredSymbols, file \in WatchCsvFiles : ImportStart(symbol, file)
    \/ ImportBatch
    \/ ImportRaise
    \/ Respond
    \/ \E symbols \in ReqSymbolLists, simulated_date \in ReqDates :
          GetWatchlist(symbols, simulated_date)
    \/ \E symbol \in RequestSymbols, simulated_date \in ReqDates :
          GetStockDetails(symbol, simulated_date)

WatchSpec == InitWatch /\ [][NextWatch]_vars

\* imports of one symbol followed by an observer, with requests for the symbol
\* served between the commits
InitImport == IdleStore /\ IdleCalc /\ IdleResolve

ObserverTimeframes == {"1W", "5Y"}
ObserverDates == {Omitted} \cup {DateString(day) : day \in SimDates}

NextImport ==
    \/ \E symbol \in ImportSymbols, file \in CsvFiles : ObservedImportStart(symbol, file)
    \/ ObservedImportBatch
    \/ ObservedImportRaise
    \/ \E symbol \in ImportSymbols, file \in CsvFiles : ObservedImportReject(symbol, file)
    \/ Respond
    \/ \E symbol \in ImportSymbols, simulated_date \in ObserverDates,
          timeframe \in ObserverTimeframes :
          GetStockData(symbol, simulated_date, timeframe)
    \/ \E symbol \in ImportSymbols, simulated_date \in ObserverDates,
          timeframe \in ObserverTimeframes :
          GetObv(symbol, simulated_date, timeframe)

ImportSpec == InitImport /\ [][NextImport]_vars

----------------------------------------------------------------------------
(* Properties of the calculators (CalcSpec) *)

CalcLen == Len(closeSeries)
AlignedVolumes == Len(calcOut.volumes) = CalcLen

\* equal in definedness and in value
SameValue(a, b) == (IsUndefined(a) /\ IsUndefined(b)) \/ a = b

\* the output series of a call: one, or MACD's three
Lines(fn, out) == IF fn = "macd" THEN <<out.macd, out.signal, out.histogram>> ELSE <<out>>

\* the calculator and parameters of call c applied to other inputs
Rerun(c, closes, volumes) ==
    CASE c.fn = "ema" -> <<calculate_ema(Floats(closes), c.period)>>
      [] c.fn = "sma" -> <<calculate_sma(Floats(closes), c.period)>>
      [] c.fn = "rsi" -> <<calculate_rsi(Floats(closes), c.period)>>
      [] c.fn = "volatility" -> <<calculate_volatility(Floats(closes), c.period)>>
      [] c.fn = "obv" -> <<calculate_obv(Floats(closes), Floats(volumes))>>
      [] c.fn = "vpt" -> <<calculate_vpt(Floats(closes), Floats(volumes))>>
      [] c.fn = "macd" ->
            Lines("macd", calculate_macd(Floats(closes), c.fast_period, c.slow_period,
                                         c.signal_period))

\* the minimum input length of the calculator of call c
MinLength(c) ==
    CASE c.fn \in {"ema", "sma"} -> c.period
      [] c.fn \in {"rsi", "volatility"} -> c.period + 1
      [] c.fn \in {"obv", "vpt"} -> 2
      [] c.fn = "macd" -> c.slow_period

Prefix(xs, len) == SubSeq(xs, 1, len)

\* the output at every index up to len is the output computed from the first
\* len bars alone
AgreesWithPrefix(len) ==
    LET mine == Lines(calcOut.fn, calcOut.out)
        short == Rerun(calcOut, Prefix(closeSeries, len), Prefix(calcOut.volumes, len))
    IN  \A l \in 1..Len(mine) : \A i \in 1..len : SameValue(mine[l][i], short[l][i])

BarSeriesCall ==
    /\ calcOut.fn # "none"
    /\ calcOut.fn \in {"obv", "vpt"} => AlignedVolumes

\* C4 as stated: every calculator is causal - on two series agreeing on indices
\* 0..i the outputs at index i agree in definedness and value (here: the output
\* on a series agrees at each index with the output on each of its prefixes)
C4_Causal_AsStated ==
    BarSeriesCall => \A len \in 1..CalcLen : AgreesWithPrefix(len)

\* C4 amended: EMA, SMA, volatility and MACD are causal on all inputs; RSI, OBV
\* and VPT are causal among inputs of at least their minimum length
C4_Causal ==
    BarSeriesCall =>
        \A len \in 1..CalcLen :
            (calcOut.fn \in {"rsi", "obv", "vpt"} => len >= MinLength(calcOut))
                => AgreesWithPrefix(len)

C4_Witness ==
    /\ calcOut.fn = "rsi"
    /\ calcOut.period = 2
    /\ CalcLen = 4
    /\ IsNum(calcOut.out[2])
    /\ closeSeries[4] # closeSeries[3]

\* C5: EMA and SMA of N >= period values have exactly the first period-1 entries
\* undefined and all later ones defined; for N < period all N are undefined
C5_EmaSmaPrefix ==
    calcOut.fn \in {"ema", "sma"} =>
        /\ Len(calcOut.out) = CalcLen
        /\ \A i \in 1..CalcLen :
              IsUndefined(calcOut.out[i]) <=> (CalcLen < calcOut.period \/ i <= calcOut.period - 1)

C5_Witness ==
    /\ calcOut.fn = "ema"
    /\ calcOut.period = 3
    /\ CalcLen = 3
    /\ IsNum(calcOut.out[3])

BelowMinimum ==
    \/ CalcLen < MinLength(calcOut)
    \/ calcOut.fn \in {"obv", "vpt"} /\ ~AlignedVolumes

\* C6: below its minimum input length (or with close / volume lengths that
\* differ) a calculator returns all-undefined output as long as the close input
C6_BelowMinimumAllUndefined ==
    (calcOut.fn # "none" /\ BelowMinimum) =>
        LET lines == Lines(calcOut.fn, calcOut.out)
        IN  \A l \in 1..Len(lines) :
                /\ Len(lines[l]) = CalcLen
                /\ \A i \in 1..CalcLen : IsUndefined(lines[l][i])

C6_Witness ==
    /\ calcOut.fn = "rsi"
    /\ calcOut.period = 2
    /\ CalcLen = 2
    /\ closeSeries[1] < closeSeries[2]

\* C7: OBV[0] = 0 and OBV[i] is OBV[i-1] plus volume[i] on a rise, minus volume[i]
\* on a fall, unchanged otherwise; the documented example gives [0,1200,400,1900,1000]
C7_ObvRecurrence ==
    /\ (calcOut.fn = "obv" /\ AlignedVolumes /\ CalcLen >= 2) =>
          /\ Len(calcOut.out) = CalcLen
          /\ calcOut.out[1] = Float(0)
          /\ \A i \in 2..CalcLen :
                calcOut.out[i] =
                    IF closeSeries[i] > closeSeries[i - 1]
                    THEN FAdd(calcOut.out[i - 1], Float(calcOut.volumes[i]))
                    ELSE IF closeSeries[i] < closeSeries[i - 1]
                    THEN FSub(calcOut.out[i - 1], Float(calcOut.volumes[i]))
                    ELSE calcOut.out[i - 1]
    /\ calcOut.fn = "obv" =>
          calculate_obv(Floats(<<100, 102, 101, 103, 102>>),
                        Floats(<<1000, 1200, 800, 1500, 900>>))
              = Floats(<<0, 1200, 400, 1900, 1000>>)

C7_Witness ==
    /\ calcOut.fn = "obv"
    /\ AlignedVolumes
    /\ \E i, j, k \in 2..CalcLen :
          /\ closeSeries[i] > closeSeries[i - 1]
          /\ closeSeries[j] < closeSeries[j - 1]
          /\ closeSeries[k] = closeSeries[k - 1]

\* C8 as stated: on every bar series of at least one bar OBV and VPT are the
\* number 0 at index 0
C8_StartAtZero_AsStated ==
    (calcOut.fn \in {"obv", "vpt"} /\ AlignedVolumes /\ CalcLen >= 1) =>
        calcOut.out[1] = Float(0)

\* C8 amended: on every bar series of at least two bars OBV and VPT are the
\* number 0 at index 0
C8_StartAtZero ==
    (calcOut.fn \in {"obv", "vpt"} /\ AlignedVolumes /\ CalcLen >= 2) =>
        calcOut.out[1] = Float(0)

C8_Witness ==
    /\ calcOut.fn = "vpt"
    /\ AlignedVolumes
    /\ CalcLen = 2
    /\ closeSeries[1] # closeSeries[2]

ConstantUpTo(xs, len) == \A j \in 1..len : xs[j] = xs[1]

\* C9 as stated: for N >= period+1 the first `period` entries of RSI are undefined
C9_RsiPrefix_AsStated ==
    (calcOut.fn = "rsi" /\ CalcLen >= calcOut.period + 1) =>
        /\ Len(calcOut.out) = CalcLen
        /\ \A i \in 1..calcOut.period : IsUndefined(calcOut.out[i])

\* C9 amended: for N >= period+1 the first period-1 entries of RSI are undefined;
\* the entry at index period-1 is undefined only if the first `period` prices are equal
C9_RsiPrefix ==
    (calcOut.fn = "rsi" /\ CalcLen >= calcOut.period + 1) =>
        /\ Len(calcOut.out) = CalcLen
        /\ \A i \in 1..(calcOut.period - 1) : IsUndefined(calcOut.out[i])
        /\ IsUndefined(calcOut.out[calcOut.period])
              <=> ConstantUpTo(closeSeries, calcOut.period)

C9_Witness ==
    /\ calcOut.fn = "rsi"
    /\ calcOut.period = 3
    /\ CalcLen >= 4
    /\ IsNum(calcOut.out[3])

StrictlyIncreasing(xs) == \A i \in 1..(Len(xs) - 1) : xs[i] < xs[i + 1]

RsiOfRisingSeries ==
    /\ \A i \in 1..(calcOut.period - 1) : IsUndefined(calcOut.out[i])
    /\ IsNum(calcOut.out[calcOut.period])
    /\ ~FLess(calcOut.out[calcOut.period], Float(0))
    /\ ~FLess(Float(100), calcOut.out[calcOut.period])
    /\ FLess(Float(50), calcOut.out[calcOut.period])

\* C10 as stated: on a strictly increasing series of length >= period+1 RSI is
\* undefined at indices 0..period-2 and at index period-1 defined, in [0,100], > 50
C10_RisingRsi_AsStated ==
    (calcOut.fn = "rsi" /\ CalcLen >= calcOut.period + 1 /\ StrictlyIncreasing(closeSeries))
        => RsiOfRisingSeries

\* C10 amended: the same for every period >= 2
C10_RisingRsi ==
    (/\ calcOut.fn = "rsi"
     /\ calcOut.period >= 2
     /\ CalcLen >= calcOut.period + 1
     /\ StrictlyIncreasing(closeSeries))
        => RsiOfRisingSeries

C10_Witness ==
    /\ calcOut.fn = "rsi"
    /\ calcOut.period = 2
    /\ CalcLen = 3
    /\ StrictlyIncreasing(closeSeries)

\* the points a data operation emits for the output of the call, the bars dated
\* by their index
CalcPoints == DefinedPoints([i \in 1..CalcLen |-> [date |-> i]], calcOut.out)
PointDates(points) == {points[k][1] : k \in 1..Len(points)}

\* no fall / some rise among the `period` diffs ending at index i (the diff at
\* the first bar counts as no move)
NoDownMove(i, period) ==
    \A j \in (i - period + 1)..i : j >= 2 => closeSeries[j] >= closeSeries[j - 1]
SomeUpMove(i, period) ==
    \E j \in (i - period + 1)..i : j >= 2 /\ closeSeries[j] > closeSeries[j - 1]

\* the indices at which the average loss is computed and is 0
ZeroLossIndices ==
    IF calcOut.fn = "rsi" /\ CalcLen >= calcOut.period + 1
    THEN {i \in calcOut.period..CalcLen : NoDownMove(i, calcOut.period)}
    ELSE {}

\* C11 as stated: wherever the average loss of the window is 0, RSI is undefined
\* and no point is emitted for that bar
C11_ZeroLossUndefined_AsStated ==
    \A i \in ZeroLossIndices :
        IsUndefined(calcOut.out[i]) /\ i \notin PointDates(CalcPoints)

\* C11 amended: wherever the average loss of the window is 0, RSI is the number
\* 100 if the window holds a rise, and a point with value 100 is emitted; it is
\* undefined, and no point is emitted, only if the window holds no move at all
C11_ZeroLoss ==
    \A i \in ZeroLossIndices :
        IF SomeUpMove(i, calcOut.period)
        THEN /\ calcOut.out[i] = Float(100)
             /\ \E k \in 1..Len(CalcPoints) : CalcPoints[k] = <<i, Float(100)>>
        ELSE /\ calcOut.out[i] = NaN
             /\ i \notin PointDates(CalcPoints)

C11_Witness ==
    /\ \E i \in ZeroLossIndices : SomeUpMove(i, calcOut.period)
    /\ \E i \in ZeroLossIndices : ~SomeUpMove(i, calcOut.period)
    /\ \E i \in calcOut.period..CalcLen : i \notin ZeroLossIndices

\* C12: in the output of calculate_macd, histogram[i] is defined if and only if
\* macd[i] and signal[i] both are, and then histogram[i] = macd[i] - signal[i]
C12_MacdHistogram ==
    calcOut.fn = "macd" =>
        /\ Len(calcOut.out.macd) = CalcLen
        /\ Len(calcOut.out.signal) = CalcLen
        /\ Len(calcOut.out.histogram) = CalcLen
        /\ \A i \in 1..CalcLen :
              /\ IsNum(calcOut.out.histogram[i])
                    <=> (IsNum(calcOut.out.macd[i]) /\ IsNum(calcOut.out.signal[i]))
              /\ IsNum(calcOut.out.histogram[i]) =>
                    calcOut.out.histogram[i]
                        = FSub(calcOut.out.macd[i], calcOut.out.signal[i])
              /\ ~IsNum(calcOut.out.histogram[i]) => calcOut.out.histogram[i] = None

C12_Witness ==
    /\ calcOut.fn = "macd"
    /\ \E i \in 1..CalcLen : IsNum(calcOut.out.macd[i]) /\ ~IsNum(calcOut.out.signal[i])
    /\ \E i \in 1..CalcLen :
          /\ IsNum(calcOut.out.histogram[i])
          /\ calcOut.out.histogram[i] # FZero
    /\ \E i \in 1..CalcLen : ~IsNum(calcOut.out.macd[i])

\* the sum of the whole numbers xs[lo..hi]
RECURSIVE IntSum(_, _, _)
IntSum(xs, lo, hi) == IF lo > hi THEN 0 ELSE xs[hi] + IntSum(xs, lo, hi - 1)

\* C21: on an input of at least `period` values the SMA is undefined before
\* index period-1 and from there on is the arithmetic mean of the `period`
\* values ending at its index
C21_SmaIsWindowMean ==
    (calcOut.fn = "sma" /\ CalcLen >= calcOut.period) =>
        /\ Len(calcOut.out) = CalcLen
        /\ \A i \in 1..CalcLen :
              /\ IsNum(calcOut.out[i]) <=> i >= calcOut.period
              /\ IsNum(calcOut.out[i]) =>
                    calcOut.out[i].n * calcOut.period
                        = calcOut.out[i].d * IntSum(closeSeries, i - calcOut.period + 1, i)

C21_Witness ==
    /\ calcOut.fn = "sma"
    /\ calcOut.period = 3
    /\ closeSeries = <<1, 2, 0, 2>>
    /\ calcOut.out = <<NaN, NaN, Float(1), Num(4, 3)>>

\* the leading undefined entries of a line: `lead` of them, all later ones defined
LeadsUndefined(line, lead) ==
    \A i \in 1..Len(line) : IsNum(line[i]) <=> i > lead
AllUndefined(line) == \A i \in 1..Len(line) : line[i] = None

MacdCall == calcOut.fn = "macd" /\ CalcLen >= calcOut.slow_period
LongerPeriod ==
    IF calcOut.fast_period > calcOut.slow_period THEN calcOut.fast_period
    ELSE calcOut.slow_period

\* the difference of the two exponential averages, from the recursion
EmaDifference(i) ==
    FSub(ewm_mean(Floats(closeSeries), calcOut.fast_period, CalcLen)[i],
         ewm_mean(Floats(closeSeries), calcOut.slow_period, CalcLen)[i])

\* C23 (as stated): on an input of at least slow_period values the MACD line has
\* slow-1 leading undefined entries and the signal line slow+signal-2 (none
\* defined when the input is shorter than slow+signal-1), for any periods
C23_MacdLeads_AsStated ==
    MacdCall =>
        /\ LeadsUndefined(calcOut.out.macd, calcOut.slow_period - 1)
        /\ IF CalcLen >= calcOut.slow_period + calcOut.signal_period - 1
           THEN LeadsUndefined(calcOut.out.signal,
                               calcOut.slow_period + calcOut.signal_period - 2)
           ELSE AllUndefined(calcOut.out.signal)

\* C23: the claim with the longer of the fast and the slow period in place of
\* the slow period: the MACD line is undefined where either average is, and
\* all three lines are undefined on an input shorter than the longer period
C23_MacdLeads ==
    MacdCall =>
        /\ Len(calcOut.out.macd) = CalcLen /\ Len(calcOut.out.signal) = CalcLen
        /\ IF CalcLen >= LongerPeriod
           THEN /\ LeadsUndefined(calcOut.out.macd, LongerPeriod - 1)
                /\ \A i \in LongerPeriod..CalcLen : calcOut.out.macd[i] = EmaDifference(i)
           ELSE AllUndefined(calcOut.out.macd)
        /\ IF CalcLen >= LongerPeriod + calcOut.signal_period - 1
           THEN LeadsUndefined(calcOut.out.signal,
                               LongerPeriod + calcOut.signal_period - 2)
           ELSE AllUndefined(calcOut.out.signal)

C23_Witness ==
    /\ calcOut.fn = "macd"
    /\ calcOut.fast_period = 3 /\ calcOut.slow_period = 2 /\ calcOut.signal_period = 2
    /\ CalcLen = 4
    /\ calcOut.out.macd[2] = None /\ IsNum(calcOut.out.macd[3])
    /\ calcOut.out.signal[3] = None /\ IsNum(calcOut.out.signal[4])
    /\ calcOut.out.signal[4] # FZero

\* the step of the VPT from index i-1 to index i (1-based here)
VptStep(i) == FSub(calcOut.out[i], calcOut.out[i - 1])

\* C24: on close and volume series of equal length N >= 2 the VPT starts at 0,
\* grows at each later index by volume[i]*(close[i]-close[i-1])/close[i-1] when
\* close[i-1] is not 0, and keeps its value when close[i-1] is 0
C24_VptRecurrence ==
    (calcOut.fn = "vpt" /\ AlignedVolumes /\ CalcLen >= 2) =>
        /\ Len(calcOut.out) = CalcLen
        /\ calcOut.out[1] = Float(0)
        /\ \A i \in 2..CalcLen :
              /\ IsNum(calcOut.out[i])
              /\ IF closeSeries[i - 1] # 0
                 THEN VptStep(i).n * closeSeries[i - 1]
                        = VptStep(i).d * calcOut.volumes[i]
                            * (closeSeries[i] - closeSeries[i - 1])
                 ELSE calcOut.out[i] = calcOut.out[i - 1]

C24_Witness ==
    /\ calcOut.fn = "vpt"
    /\ AlignedVolumes
    /\ closeSeries = <<1, 2, 0, 1>>
    /\ calcOut.volumes = <<1, 2, 1, 2>>
    /\ calcOut.out = <<Float(0), Float(2), Float(1), Float(1)>>

RECURSIVE Power(_, _)
Power(base, exponent) == IF exponent = 0 THEN 1 ELSE base * Power(base, exponent - 1)

\* (period+1)^(i-1) times the value at index i of the recursion e[1] = data[1],
\* e[i] = a*data[i] + (1-a)*e[i-1] with a = 2/(period+1), in whole numbers
RECURSIVE ScaledEma(_, _, _)
ScaledEma(data, period, i) ==
    IF i = 1 THEN data[1]
    ELSE 2 * data[i] * Power(period + 1, i - 2)
            + (period - 1) * ScaledEma(data, period, i - 1)

\* C26: every reported EMA value, the first one at index period-1 included, is
\* the value of the recursion started at the first input
C26_EmaRecursion ==
    (calcOut.fn = "ema" /\ CalcLen >= calcOut.period) =>
        \A i \in calcOut.period..CalcLen :
            /\ IsNum(calcOut.out[i])
            /\ calcOut.out[i].n * Power(calcOut.period + 1, i - 1)
                  = calcOut.out[i].d * ScaledEma(closeSeries, calcOut.period, i)

\* the first reported value differs from the mean of the first `period` inputs
C26_Witness ==
    /\ calcOut.fn = "ema"
    /\ calcOut.period = 3
    /\ closeSeries = <<0, 0, 2, 1>>
    /\ calcOut.out[3] = Float(1)
    /\ calcOut.out[3] # Num(2, 3)

NonZeroPrices == \A i \in 1..CalcLen : closeSeries[i] # 0
VolatilityCall ==
    calcOut.fn = "volatility" /\ CalcLen >= calcOut.period + 1 /\ NonZeroPrices

\* C27 (as stated): for every period >= 1, on N >= period+1 non-zero prices the
\* volatility has N entries, the first `period` undefined, the later ones
\* defined and not negative
C27_VolatilityPrefix_AsStated ==
    VolatilityCall =>
        /\ Len(calcOut.out) = CalcLen
        /\ \A i \in 1..CalcLen :
              /\ IsUndefined(calcOut.out[i]) <=> i <= calcOut.period
              /\ IsNum(calcOut.out[i]) => calcOut.out[i].n >= 0

\* C27: the claim for periods >= 2; with period 1 the standard deviation of a
\* single return is undefined and so is every entry
C27_VolatilityPrefix ==
    VolatilityCall =>
        /\ Len(calcOut.out) = CalcLen
        /\ \A i \in 1..CalcLen :
              /\ IsUndefined(calcOut.out[i]) <=> (i <= calcOut.period \/ calcOut.period = 1)
              /\ IsNum(calcOut.out[i]) => calcOut.out[i].n >= 0

C27_Witness ==
    /\ calcOut.fn = "volatility"
    /\ calcOut.period = 2
    /\ closeSeries = <<1, 2, 2, 1>>
    /\ IsUndefined(calcOut.out[2])
    /\ IsNum(calcOut.out[3]) /\ calcOut.out[3].n > 0
    /\ IsNum(calcOut.out[4])

----------------------------------------------------------------------------
(* Properties of the timeframe resolver (ResolveSpec) *)

\* January 1 of 2000 .. 2007 as day numbers, from the calendar
NewYearDays == {0, 366, 731, 1096, 1461, 1827, 2192, 2557}

KnownCodes == {"1W", "1M", "3M", "6M", "1Y", "YTD", "5Y"}

\* C2: the start date is simulated_date minus 7 / 30 / 90 / 180 / 365 / 1825 days
\* for 1W / 1M / 3M / 6M / 1Y / 5Y, January 1 of the year for YTD, and the 1Y
\* result for every other code
C2_StartDateRules ==
    rStart # NoDate =>
        LET start == rStart[1]
        IN  /\ rCode = "1W" => start = rSim - 7
            /\ rCode = "1M" => start = rSim - 30
            /\ rCode = "3M" => start = rSim - 90
            /\ rCode = "6M" => start = rSim - 180
            /\ rCode = "1Y" => start = rSim - 365
            /\ rCode = "5Y" => start = rSim - 1825
            /\ rCode = "YTD" =>
                  /\ start \in NewYearDays
                  /\ start <= rSim
                  /\ ~\E day \in NewYearDays : start < day /\ day <= rSim
            /\ rCode \notin KnownCodes =>
                  /\ start = rSim - 365
                  /\ start = calculate_start_date(rSim, "1Y")

C2_Witness ==
    /\ rStart # NoDate
    /\ rCode = "ytd"
    /\ rSim \in NewYearDays
    /\ rStart[1] = rSim - 365

\* C3: the start date never lies after the simulated date, and for YTD it equals
\* the simulated date exactly on January 1
C3_StartNotAfterSim ==
    rStart # NoDate =>
        /\ rStart[1] <= rSim
        /\ rCode = "YTD" => (rStart[1] = rSim <=> rSim \in NewYearDays)

C3_Witness ==
    /\ rCode = "YTD"
    /\ rStart = <<rSim>>

----------------------------------------------------------------------------
(* Properties of the requests (Spec) *)

\* the store with the bar of `symbol` on `day` added, replaced or removed
WithBar(store, symbol, day, content) ==
    [store EXCEPT ![symbol] =
        {r \in @ : r.date # day}
            \cup (IF content = Absent THEN {} ELSE {Row(day, content)})]

\* the store without the rows dated after `day`
Until(store, day) == [symbol \in DOMAIN store |-> {r \in store[symbol] : r.date <= day}]

\* C1: with a simulated date D supplied, every point of the response is dated
\* within [start, D], and the response does not depend on the bars dated after D
C1_NoLookAhead ==
    (req.op \in WindowOps /\ req.simulated_date.kind = "date") =>
        LET simulated == req.simulated_date.day
            start == calculate_start_date(simulated, req.timeframe)
        IN  /\ \A i \in 1..Len(resp.data) :
                  start <= resp.data[i].date /\ resp.data[i].date <= simulated
            /\ resp = Handle(Until(db, simulated), req)
            /\ \A day \in {x \in BarDates : x > simulated}, content \in BarValues \cup {Absent} :
                  resp = Handle(WithBar(db, Upper(req.symbol), day, content), req)

C1_Witness ==
    /\ req.op = "sma"
    /\ req.simulated_date = DateString(BaseDay)
    /\ \E r \in db[Upper(req.symbol)] : r.date > BaseDay
    /\ resp.status = 200
    /\ Len(resp.data) >= 2

\* the bars of the window a request is answered from
ReqWindow ==
    LET sim == EffectiveDate(db, req.symbol, SimDate(req.simulated_date))
    IN  IF sim = NoDate THEN <<>> ELSE WindowRows(db, req.symbol, sim[1], req.timeframe)

\* the calculator values of the operation of the request on its window
ReqValues ==
    CASE req.op = "ema" -> calculate_ema(ClosePrices(ReqWindow), req.period)
      [] req.op = "sma" -> calculate_sma(ClosePrices(ReqWindow), req.period)
      [] req.op = "rsi" -> calculate_rsi(ClosePrices(ReqWindow), req.period)
      [] req.op = "vix" -> calculate_volatility(ClosePrices(ReqWindow), req.period)
      [] req.op = "obv" -> calculate_obv(ClosePrices(ReqWindow), VolumeList(ReqWindow))
      [] req.op = "vpt" -> calculate_vpt(ClosePrices(ReqWindow), VolumeList(ReqWindow))
      [] req.op = "macd" ->
            calculate_macd(ClosePrices(ReqWindow), req.fast_period, req.slow_period,
                           req.signal_period).macd

\* the value a point of the operation carries
PointValue(op, point) ==
    CASE op \in {"ema", "sma"} -> point.ema
      [] op = "rsi" -> point.rsi
      [] op = "vix" -> point.volatility
      [] op = "obv" -> point.obv
      [] op = "vpt" -> point.vpt

ReqBars == db[Upper(req.symbol)]

\* the simulated date of the request: the supplied one, else the latest bar date
ResolvedDays ==
    IF req.simulated_date.kind = "date" THEN {req.simulated_date.day}
    ELSE {r.date : r \in {x \in ReqBars : \A q \in ReqBars : q.date <= x.date}}

\* the bars inside the resolved window [start, simulated date]
BarsInWindow ==
    {r \in ReqBars : \E day \in ResolvedDays :
        calculate_start_date(day, req.timeframe) <= r.date /\ r.date <= day}

C15_NotFoundDistinct_AsStated ==
    (req.op \in WindowOps /\ resp.status = 404 /\ ReqBars = {}) =>
        \A day \in BarDates, content \in BarValues :
            LET other == Handle(WithBar(db, Upper(req.symbol), day, content), req)
            IN  other.status = 404 => other.detail # resp.detail

\* C16 as stated: a supplied simulated_date string that is no YYYY-MM-DD date,
\* the empty string included, gets the invalid-date-format error (400) from the
\* data, indicator, watchlist and stock-details operations
C16_InvalidDateRejected_AsStated ==
    (/\ req.op # "none"
     /\ req.simulated_date.kind \in {"empty", "malformed"}
     /\ req.op = "watchlist" => symbol_list(req.symbols) # <<>>)
        => resp.status = 400 /\ resp.detail = ErrInvalidDate

\* C17: an indicator request with at least one bar in its window and no defined
\* calculator value gets a success payload with an empty data collection
C17_EmptyDataIsSuccess ==
    (/\ req.op \in SeriesOps \cup {"macd"}
     /\ req.simulated_date.kind # "malformed"
     /\ BarsInWindow # {}
     /\ \A i \in 1..Len(ReqWindow) : IsMissing(ReqValues[i]))
        => /\ resp.status = 200
           /\ resp.symbol = Upper(req.symbol)
           /\ resp.data = <<>>

C17_Witness ==
    /\ req.op = "sma"
    /\ req.period = 2
    /\ Cardinality(ReqBars) >= 2
    /\ Cardinality(BarsInWindow) = 1
    /\ resp.status = 200
    /\ resp.data = <<>>

\* the date of the latest stored bar of the request's symbol
LatestBarDays == {r.date : r \in {x \in ReqBars : \A q \in ReqBars : q.date <= x.date}}

\* C18: a data or indicator request without simulated date gets the response
\* the same request gets with the date of the symbol's latest stored bar supplied
C18_DefaultIsLatestBar ==
    (req.op \in WindowOps /\ req.simulated_date = Omitted) =>
        \A day \in LatestBarDays :
            resp = Handle(db, [req EXCEPT !.simulated_date = DateString(day)])

C18_Witness ==
    /\ req.op = "ema"
    /\ req.simulated_date = Omitted
    /\ LatestBarDays = {BaseDay - 7}
    /\ resp.status = 200
    /\ Len(resp.data) = 2

C25_MacdPoints ==
    (req.op = "macd" /\ resp.status = 200) =>
        /\ \A i \in 1..Len(ReqWindow) :
              IsNum(ReqValues[i])
                  <=> \E k \in 1..Len(resp.data) : resp.data[k].date = ReqWindow[i].date
        /\ Len(resp.data) = Cardinality({i \in 1..Len(ReqWindow) : IsNum(ReqValues[i])})
        /\ \A k \in 1..Len(resp.data) :
              /\ DOMAIN resp.data[k] = {"date", "macd", "signal", "histogram"}
              /\ IsNum(resp.data[k].macd)
              /\ IsNum(resp.data[k].signal) <=> IsNum(resp.data[k].histogram)
              /\ ~IsNum(resp.data[k].signal) =>
                    resp.data[k].signal = None /\ resp.data[k].histogram = None
              /\ \A l \in k..Len(resp.data) :
                    IsNum(resp.data[k].signal) => IsNum(resp.data[l].signal)

C25_Witness ==
    /\ req.op = "macd"
    /\ resp.status = 200
    /\ Len(ReqWindow) = 4
    /\ Len(resp.data) = 3
    /\ resp.data[1].signal = None
    /\ IsNum(resp.data[2].histogram)
    /\ resp.data[3].macd # FZero

\* C28: a data or indicator request without simulated date on a symbol that has
\* a stored bar never gets the no-data error, whatever the timeframe code: its
\* window is not empty and ends at the latest stored bar
C28_DefaultWindowNotEmpty ==
    (req.op \in WindowOps /\ req.simulated_date = Omitted /\ ReqBars # {}) =>
        /\ resp.status = 200
        /\ ReqWindow # <<>>
        /\ \A r \in ReqBars : r.date <= ReqWindow[Len(ReqWindow)].date
        /\ req.op = "data" => resp.data[Len(resp.data)].date = ReqWindow[Len(ReqWindow)].date

C28_Witness ==
    /\ req.op = "data"
    /\ req.simulated_date = Omitted
    /\ req.timeframe = "1W"
    /\ Cardinality(ReqBars) = 3
    /\ resp.status = 200
    /\ Len(resp.data) = 1
    /\ resp.data[1].date = BaseDay + 10

----------------------------------------------------------------------------
(* Properties of the watchlist (WatchSpec) *)

\* the requested entries, trimmed and upper-cased, that have a bar on or before
\* the simulated date (any bar when no date is given), in request order
WatchDated == req.op = "watchlist" /\ req.simulated_date.kind \in {"omitted", "date"}
HasBar(symbol) ==
    \E r \in db[symbol] :
        req.simulated_date.kind = "omitted" \/ r.date <= req.simulated_date.day
ServedSymbols == SelectSeq(symbol_list(req.symbols), HasBar)
AloneRequest(symbol) == [req EXCEPT !.symbols = <<symbol>>]

\* C19 (as stated): a watchlist request answers with one item per requested entry
\* that has a bar on or before the simulated date, in request order, each item
\* the one the symbol gets when requested alone
C19_OneItemPerServedSymbol_AsStated ==
    (WatchDated /\ symbol_list(req.symbols) # <<>>) =>
        /\ resp.status = 200
        /\ Len(resp.data) = Len(ServedSymbols)
        /\ \A i \in 1..Len(ServedSymbols) :
              /\ resp.data[i].symbol = ServedSymbols[i]
              /\ <<resp.data[i]>> = Handle(db, AloneRequest(ServedSymbols[i])).data

\* the bars of a symbol the request may use: those on or before its simulated
\* date, all of them when no date is given
DatedBars(symbol) ==
    {r \in db[Upper(symbol)] :
        req.simulated_date.kind = "date" => r.date <= req.simulated_date.day}
CurrentBars(symbol) ==
    {r \in DatedBars(symbol) : \A q \in DatedBars(symbol) : q.date <= r.date}
EarlierBars(symbol) ==
    {r \in db[Upper(symbol)] : \E c \in CurrentBars(symbol) : r.date < c.date}
PreviousBars(symbol) ==
    {r \in EarlierBars(symbol) : \A q \in EarlierBars(symbol) : q.date <= r.date}

\* price and change as the claim gives them
PriceIs(symbol, price) == \E c \in CurrentBars(symbol) : price = c.close
ChangeIs(symbol, price, change, change_percent) ==
    IF PreviousBars(symbol) = {} THEN change = 0 /\ change_percent = Float(0)
    ELSE \E p \in PreviousBars(symbol) : change = price - p.close

\* C22: a stock-details or watchlist answer gives as price the close of the
\* latest bar on or before the simulated date (the latest bar when no date is
\* given) and as change that close minus the close of the bar before it, both
\* changes 0 without an earlier bar; with a date given the answer is the one
\* of the store without the bars after that date
C22_PriceAndChange ==
    /\ (req.op = "details" /\ resp.status = 200) =>
          /\ Len(resp.data) = 1
          /\ PriceIs(req.symbol, resp.data[1].current_price)
          /\ ChangeIs(req.symbol, resp.data[1].current_price, resp.data[1].change,
                      resp.data[1].change_percent)
    /\ (req.op = "watchlist" /\ resp.status = 200) =>
          \A k \in 1..Len(resp.data) :
              /\ PriceIs(resp.data[k].symbol, resp.data[k].last_price)
              /\ ChangeIs(resp.data[k].symbol, resp.data[k].last_price,
                          resp.data[k].net_change, resp.data[k].change_percent)
    /\ (req.op \in {"details", "watchlist"} /\ req.simulated_date.kind = "date") =>
          resp = Handle(Until(db, req.simulated_date.day), req)

C22_Witness ==
    /\ req.op = "watchlist"
    /\ req.simulated_date = DateString(BaseDay)
    /\ resp.status = 200
    /\ Len(resp.data) = 2
    /\ resp.data[1].symbol = "MSFT" /\ resp.data[1].net_change = -12
    /\ resp.data[2].symbol = "AAPL" /\ resp.data[2].net_change = 0
    /\ db["AAPL"] = {Row(BaseDay - 7, [close |-> 12, volume |-> 300]),
                     Row(BaseDay + 10, [close |-> 0, volume |-> 100])}

----------------------------------------------------------------------------
(* Properties of the import (ImportSpec) *)

\* the store with the rows of one symbol replaced
WithRows(store, symbol, rows) == [store EXCEPT ![symbol] = rows]

\* C29 (as stated): after a call that returned False the symbol's stored bars
\* are those stored before the call; after a call that returned True they are
\* the rows of the CSV
C29_AllOrNothing_AsStated ==
    /\ importLog.returned = "False" => db[importLog.symbol] = importLog.before
    /\ importLog.returned = "True" => db[importLog.symbol] = RowSet(importLog.file)

\* C30 (as stated): a data or indicator request served while an import of its
\* symbol is running gets the answer of the store before the import or of the
\* store after it
C30_NoPartialSeries_AsStated ==
    (req.op \in WindowOps /\ importLog.returned = "running"
        /\ Upper(req.symbol) = importLog.symbol) =>
        \/ resp = Handle(WithRows(db, importLog.symbol, importLog.before), req)
        \/ resp = Handle(WithRows(db, importLog.symbol, RowSet(importLog.file)), req)

====
